---- MODULE Spec2Model ----
(***************************************************************************)
(* Manchester software modem: src/encode.py (file -> waveform) and         *)
(* src/decode.py (waveform -> file).                                       *)
(*                                                                         *)
(* A waveform is the sequence of 16-bit frames of the wav file.  A logical *)
(* bit is 0 or 1.  clockDuration is a Python float in the source; here it  *)
(* is a fixed-point number with ClockFracBits fractional bits (the integer *)
(* clockDuration stands for clockDuration / Scale), halved with round to   *)
(* nearest even as IEEE 754 does.                                          *)
(***************************************************************************)
EXTENDS Integers, Sequences, FiniteSets, TLC

\* ------------------------------------------------------------------------
\* Program constants
\* ------------------------------------------------------------------------
ENC_FRAME_DELIMITER == 129
ENC_PREAMBLE_DURATION == 128
ENC_DELIMITER_EVERY == 64
AUDIO_VOLUME == 16384
AUDIO_BITRATE == 44100

DEC_FRAME_DELIMITER == 126
FRAME_DELIMITER_EVERY_BYTES == 64
DEC_PREAMBLE_DURATION == 512
AUDIO_MIN_VOLUME == 12288

\* ------------------------------------------------------------------------
\* Bounds of the model
\* ------------------------------------------------------------------------
ClockFracBits == 12
MaxLen == 2
LongLen == 65

Scale == 2 ^ ClockFracBits

\* ------------------------------------------------------------------------
\* Encoder: pure parts
\* ------------------------------------------------------------------------

\* encode.py encodeByte: the bits handed to encodeBit for one byte, least
\* significant bit first, a 0 inserted after every 5th consecutive 1.
RECURSIVE EncodeByteFrom(_, _, _)
EncodeByteFrom(byte, x, consecutiveOnes) ==
    IF x = 8 THEN <<>>
    ELSE LET lastBit == (byte \div (2 ^ x)) % 2
             ones    == IF lastBit = 1 THEN consecutiveOnes + 1 ELSE 0
         IN  IF ones = 5
             THEN <<lastBit, 0>> \o EncodeByteFrom(byte, x + 1, 0)
             ELSE <<lastBit>> \o EncodeByteFrom(byte, x + 1, ones)

EncodeByte(byte) == EncodeByteFrom(byte, 0, 0)

\* encode.py outputPreamble: the bits handed to encodeBit, 1 first.
OutputPreamble ==
    [x \in 1..ENC_PREAMBLE_DURATION |-> IF (x - 1) % 2 = 0 THEN 1 ELSE 0]

\* encode.py encodeBit: the two half-cells handed to out().
EncodeBit(bit) == IF bit = 1 THEN <<0, 1>> ELSE <<1, 0>>

\* encode.py out: the amplitude of a half-cell.
OutValue(encodedBit) == IF encodedBit = 1 THEN AUDIO_VOLUME ELSE -AUDIO_VOLUME

\* encode.py out: frames per half-cell, int(AUDIO_BITRATE / clock).
Duration(clk) == AUDIO_BITRATE \div clk

\* The frames written by encodeBit for each bit of bits in turn: every bit is
\* two half-cells, every half-cell is Duration(clk) equal frames.
Frames(bits, clk) ==
    LET d == Duration(clk)
    IN  [k \in 1..(2 * d * Len(bits)) |->
            OutValue(EncodeBit(bits[((k - 1) \div (2 * d)) + 1])
                              [(((k - 1) \div d) % 2) + 1])]

\* ------------------------------------------------------------------------
\* Decoder: pure parts
\* ------------------------------------------------------------------------

\* decode.py goToNextZeroCrossing line 210: (clockDuration + cycles) / 2 in
\* fixed point, a tie rounded to the even neighbour.
AdjustClock(clockDur, cycles) ==
    LET s == clockDur + cycles * Scale
        q == s \div 2
    IN  IF s % 2 = 0 THEN q
        ELSE IF q % 2 = 0 THEN q ELSE q + 1

\* Accepted with the threshold amplitude itself let through.
AcceptedInclusive(lvl) == lvl >= AUDIO_MIN_VOLUME \/ lvl <= -AUDIO_MIN_VOLUME

\* decode.py goToNextZeroCrossing line 203: the frame is loud enough to count.
Accepted(lvl) == lvl > AUDIO_MIN_VOLUME \/ lvl < -AUDIO_MIN_VOLUME

\* decode.py goToNextZeroCrossing, the loop from frame pos + 1 on.  prev is
\* <<>> for None and <<v>> otherwise.  The result gives the frames consumed
\* (pos), and for a crossing the cycles counted and the new polarity.
RECURSIVE ScanFrames(_, _, _, _)
ScanFrames(src, pos, prev, cyclesSinceLastInversion) ==
    IF pos >= Len(src)
    THEN [status |-> "EndOfStream", cycles |-> cyclesSinceLastInversion,
          raising |-> FALSE, pos |-> pos]
    ELSE LET lvl == src[pos + 1]
         IN  IF Accepted(lvl)
             THEN LET v  == lvl > AUDIO_MIN_VOLUME
                      pv == IF prev = <<>> THEN v ELSE prev[1]
                  IN  IF v /= pv
                      THEN [status |-> "ok", cycles |-> cyclesSinceLastInversion,
                            raising |-> v, pos |-> pos + 1]
                      ELSE ScanFrames(src, pos + 1, <<pv>>,
                                      cyclesSinceLastInversion + 1)
             ELSE ScanFrames(src, pos + 1, prev,
                             IF prev /= <<>>
                             THEN cyclesSinceLastInversion + 1
                             ELSE cyclesSinceLastInversion)

\* decode.py goToNextZeroCrossing lines 209-211 and 200: what the call
\* returns for the scan result z; clockDuration is the field after the call.
Crossing(z, clockDur, adjustClockDuration) ==
    [status  |-> z.status, cycles |-> z.cycles, raising |-> z.raising,
     pos     |-> z.pos,
     clockDuration |-> IF z.status = "ok" /\ adjustClockDuration
                       THEN AdjustClock(clockDur, z.cycles)
                       ELSE clockDur]

\* decode.py goToNextZeroCrossing(adjustClockDuration) called with pos frames
\* already read.
GoToNextZeroCrossing(src, pos, clockDur, adjustClockDuration) ==
    Crossing(ScanFrames(src, pos, <<>>, 0), clockDur, adjustClockDuration)

\* TooShort with the lower end of the window excluded.
TooShortInclusive(bitDuration, clockDur) ==
    4 * bitDuration * Scale <= 3 * clockDur

\* decode.py decodeBit lines 158 and 161: the two float comparisons
\* bitDuration < clockDuration * 0.75 and bitDuration > clockDuration * 1.25.
TooShort(bitDuration, clockDur) == 4 * bitDuration * Scale < 3 * clockDur
TooLong(bitDuration, clockDur)  == 4 * bitDuration * Scale > 5 * clockDur

\* decodeBit passing True to goToNextZeroCrossing.
DecodeBitAdjustsAlways == TRUE

\* decode.py decodeBit line 156: the adjustClockDuration argument.
DecodeBitAdjusts == FALSE

\* decode.py decodeBit lines 157-166: what one iteration of the loop does
\* with the crossing z, bitDuration being the sum before it; the comparisons
\* read clockDuration as the goToNextZeroCrossing call left it.
\* crossings counts the goToNextZeroCrossing calls that returned, carried is
\* bitDuration before the last of them.
RECURSIVE DecodeBitFrom(_, _, _, _, _)
RECURSIVE DecodeBitOn(_, _, _, _, _)
DecodeBitOn(src, clockDur, bitDuration, crossings, z) ==
    IF z.status = "EndOfStream"
    THEN [status |-> "EndOfStream", bit |-> 0, pos |-> z.pos,
          bitDuration |-> bitDuration, crossings |-> crossings,
          carried |-> bitDuration, clockDuration |-> z.clockDuration]
    ELSE IF TooShort(bitDuration + z.cycles, z.clockDuration)
    THEN DecodeBitFrom(src, z.pos, z.clockDuration, bitDuration + z.cycles,
                       crossings + 1)
    ELSE IF TooLong(bitDuration + z.cycles, z.clockDuration)
    THEN [status |-> "LostTracking", bit |-> 0, pos |-> z.pos,
          bitDuration |-> bitDuration + z.cycles, crossings |-> crossings + 1,
          carried |-> bitDuration, clockDuration |-> z.clockDuration]
    ELSE [status |-> "ok", bit |-> IF z.raising THEN 1 ELSE 0,
          pos |-> z.pos, bitDuration |-> bitDuration + z.cycles,
          crossings |-> crossings + 1, carried |-> bitDuration,
          clockDuration |-> z.clockDuration]

\* decode.py decodeBit, the loop with bitDuration accumulated so far.  (Here
\* and below, CHOOSE y \in {F(z) : z \in {e}} : TRUE is F(e) with e computed
\* once, as the value a call returns is.)
DecodeBitFrom(src, pos, clockDur, bitDuration, crossings) ==
    CHOOSE y \in {DecodeBitOn(src, clockDur, bitDuration, crossings, z) :
                  z \in {GoToNextZeroCrossing(src, pos, clockDur,
                                              DecodeBitAdjusts)}} : TRUE

DecodeBit(src, pos, clockDur) == DecodeBitFrom(src, pos, clockDur, 0, 0)

\* The results of up to n successive decodeBit calls from pos on: the bits
\* returned, the frames consumed and clockDuration after each, and how the
\* run of calls ended ("ok" when all n returned a bit).
RECURSIVE ReadBits(_, _, _, _)
RECURSIVE ReadBitsOn(_, _, _, _)
ReadBitsCons(r, rest) ==
    [bits |-> <<r.bit>> \o rest.bits, at |-> <<r.pos>> \o rest.at,
     clk  |-> <<r.clockDuration>> \o rest.clk,
     end  |-> rest.end, endPos |-> rest.endPos, endClk |-> rest.endClk]

ReadBitsOn(src, clockDur, n, r) ==
    IF r.status /= "ok"
    THEN [bits |-> <<>>, at |-> <<>>, clk |-> <<>>, end |-> r.status,
          endPos |-> r.pos, endClk |-> r.clockDuration]
    ELSE CHOOSE y \in {ReadBitsCons(r, rest) :
                       rest \in {ReadBits(src, r.pos, r.clockDuration,
                                          n - 1)}} : TRUE

ReadBits(src, pos, clockDur, n) ==
    IF n = 0
    THEN [bits |-> <<>>, at |-> <<>>, clk |-> <<>>, end |-> "ok",
          endPos |-> pos, endClk |-> clockDur]
    ELSE CHOOSE y \in {ReadBitsOn(src, clockDur, n, r) :
                       r \in {DecodeBit(src, pos, clockDur)}} : TRUE

\* DecodeByteFrom assembling the byte most significant bit first, as
\* waitForStart does.
RECURSIVE DecodeByteFromMsb(_, _, _, _, _, _)
DecodeByteFromMsb(bits, i, x, decodedByte, consecutiveOnes, expectFrameDelimiter) ==
    IF x = 8 THEN [status |-> "ok", value |-> decodedByte, used |-> i]
    ELSE IF i >= Len(bits)
    THEN [status |-> "more", value |-> decodedByte, used |-> i]
    ELSE LET value   == bits[i + 1]
             byte    == ((decodedByte * 2) % 256) + value
             ones    == IF value = 1 THEN consecutiveOnes + 1 ELSE 0
         IN  IF ones = 5 /\ ~expectFrameDelimiter
             THEN IF i + 1 >= Len(bits)
                  THEN [status |-> "more", value |-> byte, used |-> i + 1]
                  ELSE IF bits[i + 2] = 1
                  THEN [status |-> "StuffingViolation", value |-> byte,
                        used |-> i + 2]
                  ELSE DecodeByteFromMsb(bits, i + 2, x + 1, byte, ones,
                                         expectFrameDelimiter)
             ELSE DecodeByteFromMsb(bits, i + 1, x + 1, byte, ones,
                                    expectFrameDelimiter)

\* DecodeByteFrom discarding the bit after the 5th consecutive 1 whether or
\* not a delimiter is expected.
RECURSIVE DecodeByteFromAlways(_, _, _, _, _, _)
DecodeByteFromAlways(bits, i, x, decodedByte, consecutiveOnes, expectFrameDelimiter) ==
    IF x = 8 THEN [status |-> "ok", value |-> decodedByte, used |-> i]
    ELSE IF i >= Len(bits)
    THEN [status |-> "more", value |-> decodedByte, used |-> i]
    ELSE LET value   == bits[i + 1]
             shifted == (decodedByte \div 2) % 256
             byte    == IF value = 1 THEN shifted + 128 ELSE shifted
             ones    == IF value = 1 THEN consecutiveOnes + 1 ELSE 0
         IN  IF ones = 5
             THEN IF i + 1 >= Len(bits)
                  THEN [status |-> "more", value |-> byte, used |-> i + 1]
                  ELSE IF bits[i + 2] = 1
                  THEN [status |-> "StuffingViolation", value |-> byte,
                        used |-> i + 2]
                  ELSE DecodeByteFromAlways(bits, i + 2, x + 1, byte, ones,
                                            expectFrameDelimiter)
             ELSE DecodeByteFromAlways(bits, i + 1, x + 1, byte, ones,
                                       expectFrameDelimiter)

\* decode.py decodeByte over the bits that successive decodeBit calls return
\* (bits, from index i on).  "more" means decodeBit was called with no bit
\* left in bits: the call's own outcome decides.  used counts the decodeBit
\* calls that returned.
RECURSIVE DecodeByteFrom(_, _, _, _, _, _)
DecodeByteFrom(bits, i, x, decodedByte, consecutiveOnes, expectFrameDelimiter) ==
    IF x = 8 THEN [status |-> "ok", value |-> decodedByte, used |-> i]
    ELSE IF i >= Len(bits)
    THEN [status |-> "more", value |-> decodedByte, used |-> i]
    ELSE LET value   == bits[i + 1]
             shifted == (decodedByte \div 2) % 256
             byte    == IF value = 1 THEN shifted + 128 ELSE shifted
             ones    == IF value = 1 THEN consecutiveOnes + 1 ELSE 0
         IN  IF ones = 5 /\ ~expectFrameDelimiter
             THEN IF i + 1 >= Len(bits)
                  THEN [status |-> "more", value |-> byte, used |-> i + 1]
                  ELSE IF bits[i + 2] = 1
                  THEN [status |-> "StuffingViolation", value |-> byte,
                        used |-> i + 2]
                  ELSE DecodeByteFrom(bits, i + 2, x + 1, byte, ones,
                                      expectFrameDelimiter)
             ELSE DecodeByteFrom(bits, i + 1, x + 1, byte, ones,
                                 expectFrameDelimiter)

DecodeByte(bits, expectFrameDelimiter) ==
    DecodeByteFrom(bits, 0, 0, 0, 0, expectFrameDelimiter)

\* The outcome of a decodeByte call that made the decodeBit calls rb and got
\* r from their bits: its result or the exception that ends it, the frames
\* consumed, the bits the decodeBit calls returned and clockDuration after
\* the last of them.
ByteOutcome(rb, r) ==
    IF r.status = "more"
    THEN [status |-> rb.end, value |-> r.value, pos |-> rb.endPos,
          bits |-> rb.bits, clockDuration |-> rb.endClk]
    ELSE [status |-> r.status, value |-> r.value, pos |-> rb.at[r.used],
          bits |-> SubSeq(rb.bits, 1, r.used),
          clockDuration |-> rb.clk[r.used]]

ReadByteOn(rb, expectFrameDelimiter) ==
    CHOOSE y \in {ByteOutcome(rb, r) :
                  r \in {DecodeByte(rb.bits, expectFrameDelimiter)}} : TRUE

\* decode.py decodeByte as it runs on the waveform, pos frames already read.
ReadByte(src, pos, clockDur, expectFrameDelimiter) ==
    CHOOSE y \in {ReadByteOn(rb, expectFrameDelimiter) :
                  rb \in {ReadBits(src, pos, clockDur,
                                   IF expectFrameDelimiter THEN 8 ELSE 9)}} : TRUE

\* decode.py decodeActualData lines 113-118: the data byte of an iteration
\* whose delimiter check, when one was due, succeeded after reading dlBits.
DataByteOn(db, dlBits, verified) ==
    [status |-> db.status, verified |-> verified, value |-> db.value,
     pos |-> db.pos, bits |-> dlBits \o db.bits, partial |-> Len(db.bits),
     clockDuration |-> db.clockDuration]

\* decode.py decodeActualData lines 107-111: the delimiter check on the byte
\* dl read with expectFrameDelimiter = True.
DelimiterOn(src, clockDur, dl) ==
    IF dl.status /= "ok"
    THEN [status |-> dl.status, verified |-> FALSE, value |-> dl.value,
          pos |-> dl.pos, bits |-> dl.bits, partial |-> Len(dl.bits),
          clockDuration |-> dl.clockDuration]
    ELSE IF dl.value /= DEC_FRAME_DELIMITER
    THEN [status |-> "FramingError", verified |-> FALSE, value |-> dl.value,
          pos |-> dl.pos, bits |-> dl.bits, partial |-> Len(dl.bits),
          clockDuration |-> dl.clockDuration]
    ELSE CHOOSE y \in {DataByteOn(db, dl.bits, TRUE) :
                       db \in {ReadByte(src, dl.pos, dl.clockDuration, FALSE)}} : TRUE

\* decode.py decodeActualData, one iteration of the while loop at byte
\* position pos0: the delimiter check when one is due, then the data byte.
\* verified tells whether a delimiter check succeeded in this iteration.
DataIteration(src, pos, clockDur, pos0) ==
    IF pos0 > 0 /\ pos0 % FRAME_DELIMITER_EVERY_BYTES = 0
    THEN CHOOSE y \in {DelimiterOn(src, clockDur, dl) :
                       dl \in {ReadByte(src, pos, clockDur, TRUE)}} : TRUE
    ELSE CHOOSE y \in {DataByteOn(db, <<>>, FALSE) :
                       db \in {ReadByte(src, pos, clockDur, FALSE)}} : TRUE

\* ------------------------------------------------------------------------
\* State
\* ------------------------------------------------------------------------
VARIABLES
    \* encoder (encode.py Main.run)
    inputFile,      \* the bytes of the file to encode
    clock,          \* the clock argument, Hz
    encPc,          \* "start", "reading", "closed", "failed"
    filePos,        \* bytes read from inputFile so far
    encPosition,    \* position, line 66
    audioSink,      \* the frames of the wav file written
    encodedBits,    \* history: every bit handed to encodeBit
    encodedTokens,  \* history: every outputPreamble / encodeByte call and the
                    \* span of encodedBits it produced
    encHandles,     \* the wav file written and the file read: "unopened",
                    \* "open" or "closed"
    \* decoder (decode.py Main.run)
    decPc,          \* "idle", "syncWithClock", "waitForStart",
                    \* "decodeActualData", "exited"
    audioSource,    \* the frames of the wav file read
    srcPos,         \* frames read so far
    clockDuration,  \* self.clockDuration, fixed point
    analyzedCycles, \* syncWithClock, line 72
    lastByte,       \* waitForStart, line 84
    position,       \* decodeActualData, line 103
    outputSink,     \* the bytes written to the output file
    log,            \* what the user is shown: logger records of level info
                    \* and error, and the traceback of an uncaught exception
    exitCode,       \* -1 while the process runs
    outcome,        \* history: how the decode ended
    decodedBits,    \* history: every bit a decodeBit call returned
    events,         \* history: "delimiter" for each successful delimiter
                    \* check, "data" for each byte written
    partial,        \* history: bits decoded by the decodeByte call that failed
    syncCrossings,  \* history: crossings consumed by syncWithClock
    decHandles,     \* the wav file read and the file written: "unopened",
                    \* "open" or "closed"
    scenario,       \* how the wav file came to be ("encoder" or a test stream)
    unit            \* a call of one function on its own: its input and result

encVars == <<inputFile, clock, encPc, filePos, encPosition, audioSink,
             encodedBits, encodedTokens, encHandles>>
decVars == <<decPc, audioSource, srcPos, clockDuration, analyzedCycles,
             lastByte, position, outputSink, log, exitCode, outcome,
             decodedBits, events, partial, syncCrossings, decHandles>>
vars == <<encVars, decVars, scenario, unit>>

\* ------------------------------------------------------------------------
\* Inputs
\* ------------------------------------------------------------------------
\* 22050 and 14700 Hz give 2 and 3 frames per half-cell; 44100 Hz is refused.
Clocks == {22050, 14700, 44100}

PayloadBytes == {0, 255, 126, 224, 7}

RECURSIVE SeqsUpTo(_, _)
SeqsUpTo(S, n) ==
    IF n = 0 THEN {<<>>}
    ELSE LET shorter == SeqsUpTo(S, n - 1)
         IN  shorter \cup {Append(q, b) : q \in {t \in shorter : Len(t) = n - 1},
                                          b \in S}

LongInput == [i \in 1..LongLen |-> IF i = 1 THEN 224 ELSE IF i = 2 THEN 7 ELSE 17]

InputFiles == SeqsUpTo(PayloadBytes, MaxLen) \cup {LongInput}

\* A file object that close() was called on; closing a closed file does
\* nothing.
Close(handles, name) == [handles EXCEPT ![name] = "closed"]

DecoderIdle ==
    /\ decPc = "idle"
    /\ decHandles = [audioSource |-> "unopened", outputSink |-> "unopened"]
    /\ audioSource = <<>>
    /\ srcPos = 0
    /\ clockDuration = 0
    /\ analyzedCycles = 0
    /\ lastByte = 0
    /\ position = 0
    /\ outputSink = <<>>
    /\ log = <<>>
    /\ exitCode = -1
    /\ outcome = "running"
    /\ decodedBits = <<>>
    /\ events = <<>>
    /\ partial = 0
    /\ syncCrossings = 0

Init ==
    /\ inputFile \in InputFiles
    /\ clock \in Clocks
    /\ encPc = "start"
    /\ filePos = 0
    /\ encPosition = 0
    /\ audioSink = <<>>
    /\ encodedBits = <<>>
    /\ encodedTokens = <<>>
    /\ encHandles = [audioSink |-> "unopened", inputFile |-> "unopened"]
    /\ scenario = "encoder"
    /\ unit = [step |-> "none"]
    /\ DecoderIdle

\* ------------------------------------------------------------------------
\* Encoder actions
\* ------------------------------------------------------------------------
Token(kind, byte, bits, before) ==
    [kind |-> kind, byte |-> byte, from |-> Len(before) + 1,
     to |-> Len(before) + Len(bits)]

\* encode.py run lines 48-66: the clock check (a ValueError nothing catches),
\* the sink, the preamble, the input file.
EncStart ==
    /\ encPc = "start"
    /\ IF 2 * clock > AUDIO_BITRATE
       THEN /\ encPc' = "failed"
            /\ UNCHANGED <<audioSink, encodedBits, encodedTokens, encHandles>>
       ELSE /\ encPc' = "reading"
            /\ encHandles' = [audioSink |-> "open", inputFile |-> "open"]
            /\ audioSink' = Frames(OutputPreamble, clock)
            /\ encodedBits' = OutputPreamble
            /\ encodedTokens' = <<Token("preamble", 0, OutputPreamble, <<>>)>>
    /\ UNCHANGED <<inputFile, clock, filePos, encPosition, decVars, scenario, unit>>

\* DelimiterDue with a delimiter before the first byte only.
DelimiterDueOnlyFirst(pos) == pos = 0

\* encode.py run line 78: a delimiter goes before the byte at pos.
DelimiterDue(pos) == pos % ENC_DELIMITER_EVERY = 0

\* encode.py run lines 67-83, an iteration that reads a byte: a delimiter
\* when one is due, then the byte.
EncByte ==
    /\ encPc = "reading"
    /\ filePos < Len(inputFile)
    /\ LET byte  == inputFile[filePos + 1]
           delim == IF DelimiterDue(encPosition)
                    THEN EncodeByte(ENC_FRAME_DELIMITER) ELSE <<>>
           data  == EncodeByte(byte)
           toks  == IF DelimiterDue(encPosition)
                    THEN <<Token("delimiter", ENC_FRAME_DELIMITER, delim,
                                 encodedBits)>>
                    ELSE <<>>
       IN  /\ audioSink' = audioSink \o Frames(delim \o data, clock)
           /\ encodedBits' = encodedBits \o delim \o data
           /\ encodedTokens' = encodedTokens \o toks \o
                  <<Token("data", byte, data, encodedBits \o delim)>>
    /\ filePos' = filePos + 1
    /\ encPosition' = encPosition + 1
    /\ UNCHANGED <<inputFile, clock, encPc, encHandles, decVars, scenario, unit>>

\* encode.py run lines 69-73 and 85: end of file, the final delimiter, close.
EncFinish ==
    /\ encPc = "reading"
    /\ filePos >= Len(inputFile)
    /\ LET delim == EncodeByte(ENC_FRAME_DELIMITER)
       IN  /\ audioSink' = audioSink \o Frames(delim, clock)
           /\ encodedBits' = encodedBits \o delim
           /\ encodedTokens' = Append(encodedTokens,
                  Token("delimiter", ENC_FRAME_DELIMITER, delim, encodedBits))
    /\ encPc' = "closed"
    /\ encHandles' = Close(Close(encHandles, "inputFile"), "audioSink")
    /\ UNCHANGED <<inputFile, clock, filePos, encPosition, decVars, scenario, unit>>

\* ------------------------------------------------------------------------
\* Decoder actions
\* ------------------------------------------------------------------------
Record(level, msg) == [level |-> level, msg |-> msg]

\* decode.py run lines 64-68 and __main__ line 247: a ValueError raised by
\* syncWithClock or waitForStart is logged, the files are closed, exit 0.
InitFailed(why, pos) ==
    /\ decPc' = "exited"
    /\ srcPos' = pos
    /\ outcome' = why
    /\ log' = Append(log, Record("error",
                 "Ran out of input data before completing initialization!"))
    /\ decHandles' = Close(Close(Close(decHandles, "outputSink"),
                                 "audioSource"), "outputSink")
    /\ exitCode' = 0

\* decode.py decodeBit line 163: Exception is not a ValueError, no handler
\* catches it; it leaves the with block of line 55, which closes the output
\* file, and run without reaching lines 67-68; the interpreter prints the
\* traceback and exits with 1.
Uncaught(pos) ==
    /\ decPc' = "exited"
    /\ srcPos' = pos
    /\ outcome' = "LostTracking"
    /\ log' = Append(log, Record("traceback", "Lost tracking!"))
    /\ decHandles' = Close(decHandles, "outputSink")
    /\ exitCode' = 1

\* decode.py run lines 52-56: open the wav file and the output file.
DecOpen ==
    /\ decPc = "idle"
    /\ encPc = "closed"
    /\ decPc' = "syncWithClock"
    /\ audioSource' = audioSink
    /\ srcPos' = 0
    /\ outputSink' = <<>>
    /\ decHandles' = [audioSource |-> "open", outputSink |-> "open"]
    /\ UNCHANGED <<clockDuration, analyzedCycles, lastByte, position, log,
                   exitCode, outcome, decodedBits, events, partial,
                   syncCrossings, encVars, scenario, unit>>

\* SyncOn waiting for more frames at the end of the input instead of raising.
SyncOnWaiting(z) ==
    /\ decPc = "syncWithClock"
    /\     IF z.status = "EndOfStream"
           THEN UNCHANGED <<decPc, srcPos, outcome, log, decHandles, exitCode,
                            clockDuration, analyzedCycles, syncCrossings>>
           ELSE /\ srcPos' = z.pos
                /\ clockDuration' = z.clockDuration
                /\ analyzedCycles' = analyzedCycles + z.cycles
                /\ syncCrossings' = syncCrossings + 1
                /\ IF analyzedCycles' >
                        (DEC_PREAMBLE_DURATION * clockDuration') \div (4 * Scale)
                   THEN /\ decPc' = "waitForStart"
                        /\ log' = Append(log, Record("info", "Found clock"))
                   ELSE UNCHANGED <<decPc, log>>
                /\ UNCHANGED <<outcome, exitCode, decHandles>>
    /\ UNCHANGED <<audioSource, lastByte, position, outputSink, decodedBits,
                   events, partial, encVars, scenario, unit>>

\* decode.py syncWithClock lines 73-80, one iteration of the loop.
SyncOn(z) ==
    /\ decPc = "syncWithClock"
    /\     IF z.status = "EndOfStream"
           THEN /\ InitFailed("EndOfStream", z.pos)
                /\ UNCHANGED <<clockDuration, analyzedCycles, syncCrossings>>
           ELSE /\ srcPos' = z.pos
                /\ clockDuration' = z.clockDuration
                /\ analyzedCycles' = analyzedCycles + z.cycles
                /\ syncCrossings' = syncCrossings + 1
                /\ IF analyzedCycles' >
                        (DEC_PREAMBLE_DURATION * clockDuration') \div (4 * Scale)
                   THEN /\ decPc' = "waitForStart"
                        /\ log' = Append(log, Record("info", "Found clock"))
                   ELSE UNCHANGED <<decPc, log>>
                /\ UNCHANGED <<outcome, exitCode, decHandles>>
    /\ UNCHANGED <<audioSource, lastByte, position, outputSink, decodedBits,
                   events, partial, encVars, scenario, unit>>

SyncStep ==
    \E z \in {GoToNextZeroCrossing(audioSource, srcPos, clockDuration, TRUE)} :
        SyncOn(z)

\* decode.py waitForStart lines 85-99, one iteration of the loop.
WaitOn(r) ==
    /\ decPc = "waitForStart"
    /\ clockDuration' = r.clockDuration
    /\ LET shifted == ((lastByte * 2) % 256) + r.bit
       IN  CASE r.status = "EndOfStream" ->
                    /\ InitFailed("EndOfStream", r.pos)
                    /\ UNCHANGED <<lastByte, decodedBits, events>>
             [] r.status = "LostTracking" ->
                    /\ Uncaught(r.pos)
                    /\ UNCHANGED <<lastByte, decodedBits, events>>
             [] OTHER ->
                    /\ srcPos' = r.pos
                    /\ lastByte' = shifted
                    /\ decodedBits' = Append(decodedBits, r.bit)
                    /\ IF shifted = DEC_FRAME_DELIMITER
                       THEN /\ decPc' = "decodeActualData"
                            /\ events' = Append(events, "delimiter")
                            /\ log' = log \o
                                 <<Record("info", "Found first frame delimiter"),
                                   Record("info", "Synced to first byte")>>
                       ELSE UNCHANGED <<decPc, events, log>>
                    /\ UNCHANGED <<outcome, exitCode, decHandles>>
    /\ UNCHANGED <<audioSource, analyzedCycles, position,
                   outputSink, partial, syncCrossings, encVars, scenario, unit>>

WaitStep ==
    \E r \in {DecodeBit(audioSource, srcPos, clockDuration)} : WaitOn(r)

\* The text of the ValueError that ends decodeActualData.
Message(status) ==
    CASE status = "EndOfStream"       -> "No more data to read"
      [] status = "FramingError"      -> "Expecting a frame delimiter"
      [] status = "StuffingViolation" ->
             "Found xx0111111 while not expecting a delimiter!"

\* DataOn going on with the next byte after a FramingError or a
\* StuffingViolation.
DataOnResume(it) ==
    /\ decPc = "decodeActualData"
    /\ clockDuration' = it.clockDuration
    /\ LET ev == IF it.verified THEN <<"delimiter">> ELSE <<>>
       IN  /\ decodedBits' = decodedBits \o it.bits
           /\ CASE it.status = "ok" ->
                    /\ srcPos' = it.pos
                    /\ outputSink' = Append(outputSink, it.value)
                    /\ position' = position + 1
                    /\ events' = events \o ev \o <<"data">>
                    /\ UNCHANGED <<decPc, log, exitCode, outcome, partial,
                                   decHandles>>
                [] it.status = "LostTracking" ->
                    /\ Uncaught(it.pos)
                    /\ events' = events \o ev
                    /\ partial' = it.partial
                    /\ UNCHANGED <<outputSink, position>>
                [] OTHER ->
                    /\ decPc' = IF it.status = "EndOfStream" THEN "exited"
                                ELSE decPc
                    /\ srcPos' = it.pos
                    /\ outcome' = it.status
                    /\ log' = Append(log, Record("info", Message(it.status)))
                    /\ decHandles' = Close(Close(Close(decHandles, "outputSink"),
                                                 "audioSource"), "outputSink")
                    /\ exitCode' = 0
                    /\ events' = events \o ev
                    /\ partial' = it.partial
                    /\ UNCHANGED <<outputSink, position>>
    /\ UNCHANGED <<audioSource, analyzedCycles, lastByte,
                   syncCrossings, encVars, scenario, unit>>

\* decode.py decodeActualData lines 105-123, one iteration of the loop; a
\* ValueError ends the loop and is logged at level info, then run closes the
\* files and the process exits with 0.
DataOn(it) ==
    /\ decPc = "decodeActualData"
    /\ clockDuration' = it.clockDuration
    /\ LET ev == IF it.verified THEN <<"delimiter">> ELSE <<>>
       IN  /\ decodedBits' = decodedBits \o it.bits
           /\ CASE it.status = "ok" ->
                    /\ srcPos' = it.pos
                    /\ outputSink' = Append(outputSink, it.value)
                    /\ position' = position + 1
                    /\ events' = events \o ev \o <<"data">>
                    /\ UNCHANGED <<decPc, log, exitCode, outcome, partial,
                                   decHandles>>
                [] it.status = "LostTracking" ->
                    /\ Uncaught(it.pos)
                    /\ events' = events \o ev
                    /\ partial' = it.partial
                    /\ UNCHANGED <<outputSink, position>>
                [] OTHER ->
                    /\ decPc' = "exited"
                    /\ srcPos' = it.pos
                    /\ outcome' = it.status
                    /\ log' = Append(log, Record("info", Message(it.status)))
                    /\ decHandles' = Close(Close(Close(decHandles, "outputSink"),
                                                 "audioSource"), "outputSink")
                    /\ exitCode' = 0
                    /\ events' = events \o ev
                    /\ partial' = it.partial
                    /\ UNCHANGED <<outputSink, position>>
    /\ UNCHANGED <<audioSource, analyzedCycles, lastByte,
                   syncCrossings, encVars, scenario, unit>>

DataStep ==
    \E it \in {DataIteration(audioSource, srcPos, clockDuration, position)} :
        DataOn(it)

Next ==
    \/ EncStart
    \/ EncByte
    \/ EncFinish
    \/ DecOpen
    \/ SyncStep
    \/ WaitStep
    \/ DataStep

Spec == Init /\ [][Next]_vars

\* ------------------------------------------------------------------------
\* The decoder on wav files that encode.py did not write
\* ------------------------------------------------------------------------
\* encode.py out: the frames of one half-cell.
Out(encodedBit, duration) == [x \in 1..duration |-> OutValue(encodedBit)]

\* The 8 bits of a byte, least significant first, nothing inserted.
RawBits(byte) == [x \in 1..8 |-> (byte \div (2 ^ (x - 1))) % 2]

\* A preamble of n alternating bits, 1 first.
Alternating(n) == [x \in 1..n |-> IF (x - 1) % 2 = 0 THEN 1 ELSE 0]

\* The stream the decoder expects for the data bytes B from index i on: the
\* 8 raw bits of its FRAME_DELIMITER before every byte whose index is a
\* multiple of FRAME_DELIMITER_EVERY_BYTES, every byte stuffed.
RECURSIVE Framed(_, _)
Framed(B, i) ==
    IF i >= Len(B) THEN <<>>
    ELSE (IF i % FRAME_DELIMITER_EVERY_BYTES = 0
          THEN RawBits(DEC_FRAME_DELIMITER) ELSE <<>>)
         \o EncodeByte(B[i + 1]) \o Framed(B, i + 1)

\* What follows the last data byte.
Tails == {"none", "raw", "stuffed", "wrong", "ones"}

TailBits(t) ==
    CASE t = "none"    -> <<>>
      [] t = "raw"     -> RawBits(DEC_FRAME_DELIMITER)
      [] t = "stuffed" -> EncodeByte(DEC_FRAME_DELIMITER)
      [] t = "wrong"   -> RawBits(ENC_FRAME_DELIMITER)
      [] t = "ones"    -> RawBits(255)

GapFrames == 7
MaxCut == 20
ShortPreamble == 64
LongPreamble == ENC_PREAMBLE_DURATION + 2

TestPreambles == {ShortPreamble, ENC_PREAMBLE_DURATION, LongPreamble}
ShortPayloads == {<<>>, <<0>>, <<126>>}
LongPayloads == {[i \in 1..(LongLen - 1) |-> 17], [i \in 1..LongLen |-> 17]}

Scenarios ==
    [pre : TestPreambles, payload : ShortPayloads, tail : Tails,
     gap : {0, GapFrames}, cut : {0, MaxCut}]
    \cup
    [pre : {LongPreamble}, payload : LongPayloads, tail : Tails,
     gap : {0}, cut : {0}]

\* The frames of a test stream: preamble and framed bytes, sc.gap frames at
\* the threshold amplitude, the tail, the last sc.cut frames missing.
TestWave(sc, clk) ==
    LET all == Frames(Alternating(sc.pre) \o Framed(sc.payload, 0), clk)
               \o [x \in 1..sc.gap |-> AUDIO_MIN_VOLUME]
               \o Frames(TailBits(sc.tail), clk)
    IN  SubSeq(all, 1, IF Len(all) > sc.cut THEN Len(all) - sc.cut ELSE 0)

DecClocks == {22050, 14700}

InitDec ==
    /\ scenario \in Scenarios
    /\ clock \in DecClocks
    /\ inputFile = scenario.payload
    /\ encPc = "closed"
    /\ filePos = 0
    /\ encPosition = 0
    /\ audioSink = TestWave(scenario, clock)
    /\ encodedBits = <<>>
    /\ encodedTokens = <<>>
    /\ encHandles = [audioSink |-> "closed", inputFile |-> "closed"]
    /\ unit = [step |-> "none"]
    /\ DecoderIdle

NextDec ==
    \/ DecOpen
    \/ SyncStep
    \/ WaitStep
    \/ DataStep

SpecDec == InitDec /\ [][NextDec]_vars

\* ------------------------------------------------------------------------
\* encodeByte and decodeByte on their own
\* ------------------------------------------------------------------------
EncoderIdle ==
    /\ inputFile = <<>>
    /\ clock = 14700
    /\ encPc = "start"
    /\ filePos = 0
    /\ encPosition = 0
    /\ audioSink = <<>>
    /\ encodedBits = <<>>
    /\ encodedTokens = <<>>
    /\ encHandles = [audioSink |-> "unopened", inputFile |-> "unopened"]

InitByte ==
    /\ unit \in [step : {"byte"}, byte : 0..255]
    /\ scenario = "unit"
    /\ EncoderIdle
    /\ DecoderIdle

\* encodeByte(byte): the bits it hands to encodeBit.
UnitEncodeByte ==
    /\ unit.step = "byte"
    /\ unit' = [step |-> "encoded", byte |-> unit.byte,
                bits |-> EncodeByte(unit.byte)]
    /\ UNCHANGED <<encVars, decVars, scenario>>

\* decodeByte(False) with decodeBit returning those bits in turn.
UnitDecodeByte ==
    /\ unit.step = "encoded"
    /\ unit' = [step |-> "decoded", byte |-> unit.byte, bits |-> unit.bits,
                result |-> DecodeByte(unit.bits, FALSE)]
    /\ UNCHANGED <<encVars, decVars, scenario>>

NextByte ==
    \/ UnitEncodeByte
    \/ UnitDecodeByte

SpecByte == InitByte /\ [][NextByte]_vars

\* ------------------------------------------------------------------------
\* decodeByte on its own, on any bits
\* ------------------------------------------------------------------------
UnitBits == 9

InitRaw ==
    /\ unit \in [step : {"bits"}, bits : [1..UnitBits -> {0, 1}],
                 expect : BOOLEAN]
    /\ scenario = "unit"
    /\ EncoderIdle
    /\ DecoderIdle

\* decodeByte(expect) with decodeBit returning unit.bits in turn.
UnitDecodeRaw ==
    /\ unit.step = "bits"
    /\ unit' = [step |-> "byteResult", bits |-> unit.bits,
                expect |-> unit.expect,
                result |-> DecodeByte(unit.bits, unit.expect)]
    /\ UNCHANGED <<encVars, decVars, scenario>>

NextRaw == UnitDecodeRaw

SpecRaw == InitRaw /\ [][NextRaw]_vars

\* ------------------------------------------------------------------------
\* waitForStart on its own, on any bits
\* ------------------------------------------------------------------------
HuntBits == 9

\* decodeBit returning the bits of bits in turn, n of them returned so far,
\* and raising the end of the input after the last.
StubBit(bits, n, clockDur) ==
    IF n < Len(bits)
    THEN [status |-> "ok", bit |-> bits[n + 1], pos |-> n + 1,
          clockDuration |-> clockDur]
    ELSE [status |-> "EndOfStream", bit |-> 0, pos |-> n,
          clockDuration |-> clockDur]

\* waitForStart is entered: lastByte = 0, no bit decoded yet.
InitHunt ==
    /\ unit \in [step : {"hunt"}, bits : [1..HuntBits -> {0, 1}]]
    /\ scenario = "unit"
    /\ EncoderIdle
    /\ decPc = "waitForStart"
    /\ decHandles = [audioSource |-> "open", outputSink |-> "open"]
    /\ audioSource = <<>>
    /\ srcPos = 0
    /\ clockDuration = 5 * Scale
    /\ analyzedCycles = 0
    /\ lastByte = 0
    /\ position = 0
    /\ outputSink = <<>>
    /\ log = <<>>
    /\ exitCode = -1
    /\ outcome = "running"
    /\ decodedBits = <<>>
    /\ events = <<>>
    /\ partial = 0
    /\ syncCrossings = 0

\* One iteration of the loop of waitForStart.
UnitHunt == WaitOn(StubBit(unit.bits, Len(decodedBits), clockDuration))

NextHunt == UnitHunt

SpecHunt == InitHunt /\ [][NextHunt]_vars

\* ------------------------------------------------------------------------
\* decodeBit on its own
\* ------------------------------------------------------------------------
MaxRun == 8
MaxRuns == 3

\* Frames that hold each level of runs in turn, the first one high.
RECURSIVE RunFrames(_, _)
RunFrames(runs, level) ==
    IF runs = <<>> THEN <<>>
    ELSE Out(level, Head(runs)) \o RunFrames(Tail(runs), 1 - level)

\* Clock durations of 3, 3.5, 4 and 5 frames.
UnitClocks == {3 * Scale, (7 * Scale) \div 2, 4 * Scale, 5 * Scale}

\* The call starts after frame 1, the frame of the previous crossing.
InitBit ==
    /\ unit \in [step : {"bit"},
                 runs : SeqsUpTo(1..MaxRun, MaxRuns) \ {<<>>}]
    /\ scenario = "unit"
    /\ EncoderIdle
    /\ decPc = "idle"
    /\ decHandles = [audioSource |-> "open", outputSink |-> "open"]
    /\ audioSource = RunFrames(unit.runs, 1)
    /\ srcPos = 1
    /\ clockDuration \in UnitClocks
    /\ analyzedCycles = 0
    /\ lastByte = 0
    /\ position = 0
    /\ outputSink = <<>>
    /\ log = <<>>
    /\ exitCode = -1
    /\ outcome = "running"
    /\ decodedBits = <<>>
    /\ events = <<>>
    /\ partial = 0
    /\ syncCrossings = 0

UnitBitOn(r) ==
    /\ unit.step = "bit"
    /\ unit' = [step |-> "bitResult", runs |-> unit.runs, from |-> srcPos,
                result |-> r]
    /\ srcPos' = r.pos
    /\ clockDuration' = r.clockDuration
    /\ UNCHANGED <<decPc, audioSource, analyzedCycles,
                   lastByte, position, outputSink, log, exitCode, outcome,
                   decodedBits, events, partial, syncCrossings, decHandles,
                   encVars, scenario>>

\* decodeBit().
UnitDecodeBit == UnitBitOn(DecodeBit(audioSource, srcPos, clockDuration))

NextBit == UnitDecodeBit

SpecBit == InitBit /\ [][NextBit]_vars

\* ------------------------------------------------------------------------
\* goToNextZeroCrossing on its own
\* ------------------------------------------------------------------------
MaxScanLen == 4

\* Amplitudes at, just above and well above the threshold, both signs, and
\* silence.
ScanLevels == {0, AUDIO_MIN_VOLUME, -AUDIO_MIN_VOLUME, AUDIO_MIN_VOLUME + 1,
               -(AUDIO_MIN_VOLUME + 1), AUDIO_VOLUME, -AUDIO_VOLUME}

ScanInputs ==
    SeqsUpTo(ScanLevels, MaxScanLen)
    \cup {RunFrames(runs, 1) : runs \in SeqsUpTo(1..MaxRun, MaxRuns)}

InitScan ==
    /\ unit \in [step : {"scan"}, adjust : BOOLEAN, calls : {0}]
    /\ scenario = "unit"
    /\ EncoderIdle
    /\ decPc = "idle"
    /\ decHandles = [audioSource |-> "open", outputSink |-> "open"]
    /\ audioSource \in ScanInputs
    /\ srcPos = 0
    /\ clockDuration \in {0, 3 * Scale}
    /\ analyzedCycles = 0
    /\ lastByte = 0
    /\ position = 0
    /\ outputSink = <<>>
    /\ log = <<>>
    /\ exitCode = -1
    /\ outcome = "running"
    /\ decodedBits = <<>>
    /\ events = <<>>
    /\ partial = 0
    /\ syncCrossings = 0

UnitScanOn(z) ==
    /\ unit.step \in {"scan", "scanResult"}
    /\ unit.step = "scanResult" => unit.result.status = "ok"
    /\ unit' = [step |-> "scanResult", adjust |-> unit.adjust,
                calls |-> unit.calls + 1, from |-> srcPos,
                before |-> clockDuration, result |-> z]
    /\ srcPos' = z.pos
    /\ clockDuration' = z.clockDuration
    /\ UNCHANGED <<decPc, audioSource, analyzedCycles, lastByte, position,
                   outputSink, log, exitCode, outcome, decodedBits, events,
                   partial, syncCrossings, decHandles, encVars, scenario>>

\* goToNextZeroCrossing(adjust), called again after every crossing.
UnitScan ==
    UnitScanOn(GoToNextZeroCrossing(audioSource, srcPos, clockDuration,
                                    unit.adjust))

NextScan == UnitScan

SpecScan == InitScan /\ [][NextScan]_vars

\* ------------------------------------------------------------------------
\* The decoder on any wav file, run to its end
\* ------------------------------------------------------------------------
\* A wav file of arbitrary frames.
InitRawWave ==
    /\ scenario = "raw"
    /\ clock = 14700
    /\ inputFile = <<>>
    /\ encPc = "closed"
    /\ filePos = 0
    /\ encPosition = 0
    /\ audioSink \in ScanInputs
    /\ encodedBits = <<>>
    /\ encodedTokens = <<>>
    /\ encHandles = [audioSink |-> "closed", inputFile |-> "closed"]
    /\ unit = [step |-> "none"]
    /\ DecoderIdle

InitLive == InitDec \/ InitRawWave

\* The process is sequential and nothing blocks it: whenever a step can be
\* taken, one is.
SpecLive == InitLive /\ [][NextDec]_vars /\ WF_vars(NextDec)

\* ------------------------------------------------------------------------
\* Properties of the encoder and of the encoder-decoder pipeline (Spec)
\* ------------------------------------------------------------------------
Exited == decPc = "exited"

\* The bits of encodedBits that the call recorded as token t produced.
TokenBits(t) == SubSeq(encodedBits, t.from, t.to)

\* C1: when the decoder has exited on the waveform the encoder wrote for
\* inputFile, the output file holds exactly the bytes of inputFile.
C1_RoundTrip == Exited => outputSink = inputFile

\* Bit k of encodedBits was written by an encodeByte call for a data byte.
InDataByte(k) ==
    \E n \in 1..Len(encodedTokens) :
        /\ encodedTokens[n].kind = "data"
        /\ encodedTokens[n].from <= k
        /\ k <= encodedTokens[n].to

\* C2: the encoded stream has no run of 6 consecutive 1-bits made of the
\* bits of data bytes (stuffed bits included), within a byte or across the
\* boundary of two bytes.
C2_NoSixOnes ==
    \A k \in 1..(Len(encodedBits) - 5) :
        ~ \A j \in k..(k + 5) : encodedBits[j] = 1 /\ InDataByte(j)

\* The encodeByte calls the claim expects for the bytes of B from index i on,
\* as <<kind, byte>>: a delimiter before every byte whose index is a multiple
\* of 64, the bytes in order, one delimiter at the end.
RECURSIVE ExpectedCalls(_, _)
ExpectedCalls(B, i) ==
    IF i >= Len(B) THEN << <<"delimiter", ENC_FRAME_DELIMITER>> >>
    ELSE (IF i % 64 = 0 THEN << <<"delimiter", ENC_FRAME_DELIMITER>> >>
          ELSE <<>>)
         \o << <<"data", B[i + 1]>> >> \o ExpectedCalls(B, i + 1)

\* C4: once the encoder has closed the wav file, the stream after the
\* preamble is, without gap or overlap: a delimiter before data byte i
\* exactly when i % 64 = 0, the data bytes in input order, and one delimiter
\* after the last byte; for an empty input a single delimiter.
C4_Framing ==
    encPc = "closed" =>
        /\ encodedTokens[1].kind = "preamble"
        /\ encodedTokens[1].from = 1
        /\ encodedTokens[Len(encodedTokens)].to = Len(encodedBits)
        /\ [n \in 1..(Len(encodedTokens) - 1) |->
               <<encodedTokens[n + 1].kind, encodedTokens[n + 1].byte>>]
           = ExpectedCalls(inputFile, 0)
        /\ \A n \in 2..Len(encodedTokens) :
               /\ encodedTokens[n].from = encodedTokens[n - 1].to + 1
               /\ TokenBits(encodedTokens[n]) = EncodeByte(encodedTokens[n].byte)

\* C4 witness: a closed stream of more than 64 data bytes.
C4_Witness == encPc = "closed" /\ Len(inputFile) > 64

\* C5: every delimiter token the encoder writes is the 8 raw bits of 0x7E,
\* the decoder's FRAME_DELIMITER, with no stuffed bit.
C5_DelimiterRaw ==
    \A n \in 1..Len(encodedTokens) :
        encodedTokens[n].kind = "delimiter" =>
            /\ encodedTokens[n].byte = DEC_FRAME_DELIMITER
            /\ TokenBits(encodedTokens[n]) = RawBits(DEC_FRAME_DELIMITER)

\* C8: once syncWithClock has returned on an encoder waveform, having consumed
\* the mid-bit crossings of the first syncCrossings bits, the bits that the
\* decodeBit calls return are the bits handed to encodeBit after those, in
\* order.
C8_BitsInverse ==
    decPc \in {"waitForStart", "decodeActualData", "exited"} =>
        /\ syncCrossings + Len(decodedBits) <= Len(encodedBits)
        /\ decodedBits = SubSeq(encodedBits, syncCrossings + 1,
                                syncCrossings + Len(decodedBits))

\* The encoder run is over: it returned, or the clock check raised.
EncoderDone == encPc \in {"closed", "failed"}

\* C11: when a run is over, on whichever path (normal end, EndOfStream,
\* FramingError, StuffingViolation, LostTracking, invalid clock), no file it
\* opened is left open: the encoder's wav file and input file and the
\* decoder's wav file and output file are closed or were never opened.
C11_AllClosed ==
    /\ EncoderDone => /\ encHandles.audioSink /= "open"
                      /\ encHandles.inputFile /= "open"
    /\ Exited => /\ decHandles.audioSource /= "open"
                 /\ decHandles.outputSink /= "open"

\* The frames between two crossings of the preamble the encoder writes: the
\* second half-cell of a bit and the first of the next are at the same level.
PreamblePeriod == 2 * Duration(clock)

\* C13: when syncWithClock has returned on the preamble the encoder wrote,
\* clockDuration is within 1% of the period P of that preamble, whatever the
\* frames per half-cell.
C13_ClockWithinOnePercent ==
    decPc = "waitForStart" =>
        /\ 100 * (clockDuration - PreamblePeriod * Scale) <= PreamblePeriod * Scale
        /\ 100 * (PreamblePeriod * Scale - clockDuration) <= PreamblePeriod * Scale

\* The frames of the preamble in the wav file the encoder wrote.
PreambleFrames == Len(Frames(OutputPreamble, clock))

\* C19: on the waveform the encoder wrote, syncWithClock returns inside the
\* preamble: it has consumed at most one crossing per preamble bit and no
\* frame after the preamble, so that the first bit waitForStart decodes is
\* the first bit of the first delimiter.
C19_SyncInsidePreamble ==
    (decPc = "waitForStart" /\ decodedBits = <<>>) =>
        /\ syncCrossings <= ENC_PREAMBLE_DURATION
        /\ srcPos <= PreambleFrames

\* ------------------------------------------------------------------------
\* Properties of the decoder on test streams (SpecDec)
\* ------------------------------------------------------------------------
\* The number of data bytes written before event i.
DataBefore(i) == Cardinality({j \in 1..(i - 1) : events[j] = "data"})

\* The test stream is whole: a preamble that clock recovery ends in, the
\* framed bytes, the raw terminal delimiter, nothing missing.
WholeStream ==
    /\ scenario.pre = LongPreamble
    /\ scenario.tail = "raw"
    /\ scenario.gap = 0
    /\ scenario.cut = 0

\* C3: every data byte written at an index that is a multiple of 64 comes
\* right after a successful delimiter check; and when the decoder has exited
\* on a whole stream after writing all its data bytes, the last thing it did
\* was a successful check of the terminal delimiter, which it did not write
\* as data.
C3_DelimiterVerified ==
    /\ \A i \in 1..Len(events) :
           (events[i] = "data" /\ DataBefore(i) % 64 = 0)
               => (i > 1 /\ events[i - 1] = "delimiter")
    /\ (Exited /\ WholeStream /\ events /= <<>>
        /\ Len(outputSink) >= Len(scenario.payload))
           => /\ outputSink = scenario.payload
              /\ events[Len(events)] = "delimiter"

\* What the user is shown last, and the exit code.
Report == [level |-> log[Len(log)].level, msg |-> log[Len(log)].msg,
           exitCode |-> exitCode]

\* The input ended while decodeActualData was running.
StreamEnded == Exited /\ outcome = "EndOfStream" /\ events /= <<>>

\* A clean end: the last thing decoded before the input ended was a verified
\* delimiter, and not one bit after it.
CleanEnd ==
    StreamEnded /\ events[Len(events)] = "delimiter" /\ partial = 0

\* An abrupt truncation: the input ended anywhere else in the stream.
Truncated == StreamEnded /\ ~CleanEnd

\* What decode.py reports on a clean end.
CleanEndReport ==
    [level |-> "info", msg |-> "No more data to read", exitCode |-> 0]

\* C9: a clean end has a report of its own: a truncation is never reported
\* as a clean end is, and neither is a FramingError or a StuffingViolation.
C9_EndsDistinguished ==
    /\ CleanEnd => Report = CleanEndReport
    /\ Truncated => Report /= CleanEndReport
    /\ (Exited /\ outcome \in {"FramingError", "StuffingViolation"})
           => Report /= CleanEndReport

\* The run ended by a fatal error: the input ended during clock recovery or
\* delimiter hunting, or tracking was lost, or a delimiter or a stuffed bit
\* was wrong.
FatalError ==
    /\ Exited
    /\ \/ outcome \in {"LostTracking", "FramingError", "StuffingViolation"}
       \/ outcome = "EndOfStream" /\ events = <<>>

\* C10: a run that ended by a fatal error has logged the error and exits
\* with a non-zero code.
C10_ExitCode ==
    FatalError => (exitCode /= 0 /\ log /= <<>> /\ log[Len(log)].level = "error")

\* The errors that end a decode.
DecodeErrors == {"FramingError", "StuffingViolation", "LostTracking"}

\* C16: the step in which a FramingError, a StuffingViolation or a
\* LostTracking is raised ends the decoder; from then on no frame is read, no
\* bit is decoded and no byte is written; and every step leaves the bytes
\* already written in place, the output growing at its end only.
C16_ErrorEndsDecode ==
    [][/\ Len(outputSink') >= Len(outputSink)
       /\ SubSeq(outputSink', 1, Len(outputSink)) = outputSink
       /\ outcome' \in DecodeErrors => decPc' = "exited"
       /\ outcome \in DecodeErrors =>
              /\ srcPos' = srcPos
              /\ outputSink' = outputSink
              /\ decodedBits' = decodedBits
              /\ outcome' = outcome]_vars

\* C16 witness: a decode ended by a FramingError after 64 bytes were written,
\* all of them still there.
C16_Witness ==
    /\ Exited
    /\ outcome = "FramingError"
    /\ Len(outputSink) = 64
    /\ outputSink = SubSeq(scenario.payload, 1, 64)

\* syncWithClock has returned.
ClockFound == decPc \in {"waitForStart", "decodeActualData", "exited"}
                  /\ log /= <<>> /\ log[1].msg = "Found clock"

\* C18: once syncWithClock has returned, no step of waitForStart or of
\* decodeActualData, with the decodeByte, decodeBit and goToNextZeroCrossing
\* calls it makes, changes clockDuration.
C18_ClockFrozen ==
    [][ClockFound => clockDuration' = clockDuration]_vars

\* C18 witness: bytes were decoded and written with the clockDuration that
\* syncWithClock left, 5 frames at 3 frames per half-cell.
C18_Witness ==
    /\ Exited
    /\ Len(outputSink) = LongLen
    /\ clock = 14700
    /\ clockDuration = 5 * Scale

\* ------------------------------------------------------------------------
\* Properties of encodeByte / decodeByte (SpecByte)
\* ------------------------------------------------------------------------
\* The positions of raw at which a run of 1-bits reaches length 5.
FifthOnes(raw) == {k \in 5..8 : \A j \in (k - 4)..k : raw[j] = 1}

Min(S) == CHOOSE m \in S : \A n \in S : m <= n

\* raw with a 0 inserted after the 5th consecutive 1 (8 bits hold one such
\* place at most).
Stuffed(raw) ==
    IF FifthOnes(raw) = {} THEN raw
    ELSE SubSeq(raw, 1, Min(FifthOnes(raw))) \o <<0>>
         \o SubSeq(raw, Min(FifthOnes(raw)) + 1, 8)

\* C6: encodeByte(b) emits the bits of b, least significant first, with a 0
\* after the 5th consecutive 1; decodeByte(False) on exactly those bits
\* consumes all of them and returns b, for every b in 0..255.
C6_ByteRoundTrip ==
    /\ unit.step \in {"encoded", "decoded"}
           => unit.bits = Stuffed(RawBits(unit.byte))
    /\ unit.step = "decoded"
           => /\ unit.result.status = "ok"
              /\ unit.result.value = unit.byte
              /\ unit.result.used = Len(unit.bits)

\* C6 witness: the payload byte 0x7E went through both, with a stuffed bit.
C6_Witness ==
    /\ unit.step = "decoded"
    /\ unit.byte = 126
    /\ Len(unit.bits) = 9
    /\ unit.result.value = 126

\* ------------------------------------------------------------------------
\* Properties of decodeByte on any bits (SpecRaw)
\* ------------------------------------------------------------------------
\* The byte made of 8 bits, the first one the least significant.
ByteOf(b) ==
    b[1] + 2 * b[2] + 4 * b[3] + 8 * b[4] + 16 * b[5] + 32 * b[6]
    + 64 * b[7] + 128 * b[8]

\* b without its k-th bit.
Without(b, k) == SubSeq(b, 1, k - 1) \o SubSeq(b, k + 1, Len(b))

\* C14: decodeByte(False) raises StuffingViolation exactly when the bit after
\* the 5th consecutive 1 of the byte is a 1; when that bit is a 0 it is
\* consumed and left out of the value, which is made of the 8 other bits;
\* with no 5 consecutive 1s it consumes 8 bits.  decodeByte(True) consumes
\* exactly 8 bits, all of them in the value, and never raises.
C14_Destuffing ==
    unit.step = "byteResult" =>
        LET b     == unit.bits
            r     == unit.result
            fifth == FifthOnes(SubSeq(b, 1, 8))
        IN  IF unit.expect
            THEN /\ r.status = "ok"
                 /\ r.used = 8
                 /\ r.value = ByteOf(b)
            ELSE IF fifth = {}
            THEN /\ r.status = "ok"
                 /\ r.used = 8
                 /\ r.value = ByteOf(b)
            ELSE IF b[Min(fifth) + 1] = 1
            THEN /\ r.status = "StuffingViolation"
                 /\ r.used = Min(fifth) + 1
            ELSE /\ r.status = "ok"
                 /\ r.used = 9
                 /\ r.value = ByteOf(Without(b, Min(fifth) + 1))

\* C14 witness: decodeByte(False) raised on a 1 right after five 1s that
\* follow a 0.
C14_Witness ==
    /\ unit.step = "byteResult"
    /\ ~unit.expect
    /\ unit.result.status = "StuffingViolation"
    /\ unit.bits[1] = 0
    /\ unit.result.used = 7

\* decodeByte(True) returned 0x7E from its 8 raw bits.
C14_DelimiterRead ==
    /\ unit.step = "byteResult"
    /\ unit.expect
    /\ unit.result.value = DEC_FRAME_DELIMITER

\* ------------------------------------------------------------------------
\* Properties of decodeBit (SpecBit)
\* ------------------------------------------------------------------------
\* C7: decodeBit returns a bit only at a cumulative duration within
\* [0.75, 1.25] x clockDuration, both ends included, and always does there;
\* it raises LostTracking only strictly above 1.25 x; a crossing is passed
\* over only when the sum up to it is strictly below 0.75 x, and its duration
\* stays in the sum.
C7_Window ==
    unit.step = "bitResult" =>
        LET r  == unit.result
            bd == 4 * r.bitDuration * Scale
        IN  /\ r.status = "ok" => (3 * clockDuration <= bd /\ bd <= 5 * clockDuration)
            /\ r.status = "LostTracking" => bd > 5 * clockDuration
            /\ (r.status /= "EndOfStream" /\ 3 * clockDuration <= bd
                /\ bd <= 5 * clockDuration) => r.status = "ok"
            /\ 4 * r.carried * Scale < 3 * clockDuration
            /\ r.status /= "EndOfStream"
                   => r.bitDuration = (r.pos - unit.from) - r.crossings

\* C7 witness: a bit returned at exactly 1.25 x clockDuration, the sum of two
\* crossings.
C7_Witness ==
    /\ unit.step = "bitResult"
    /\ unit.result.status = "ok"
    /\ unit.result.crossings = 2
    /\ 4 * unit.result.bitDuration * Scale = 5 * clockDuration

\* A bit returned at exactly 0.75 x clockDuration.
C7_LowerEnd ==
    /\ unit.step = "bitResult"
    /\ unit.result.status = "ok"
    /\ 4 * unit.result.bitDuration * Scale = 3 * clockDuration

\* ------------------------------------------------------------------------
\* Properties of goToNextZeroCrossing (SpecScan)
\* ------------------------------------------------------------------------
\* The frames of the last call, those after frame a up to frame b, whose
\* amplitude is strictly above the threshold in magnitude.
Loud(a, b) ==
    {k \in (a + 1)..b : audioSource[k] > AUDIO_MIN_VOLUME
                         \/ audioSource[k] < -AUDIO_MIN_VOLUME}

\* C12: a frame whose amplitude is the threshold or below it, in magnitude,
\* never registers as a crossing and never changes the tracked polarity: the
\* frame a call returns at is strictly above the threshold, the polarity
\* returned is its sign, every louder frame the call read before it has the
\* other sign and there is one; a call that reaches the end of the input read
\* no two louder frames of different signs.
C12_ThresholdExclusive ==
    unit.step = "scanResult" =>
        LET r == unit.result
        IN  /\ r.status = "ok" =>
                /\ r.pos \in Loud(unit.from, r.pos)
                /\ r.raising = (audioSource[r.pos] > 0)
                /\ Loud(unit.from, r.pos - 1) /= {}
                /\ \A k \in Loud(unit.from, r.pos - 1) :
                       (audioSource[k] > 0) /= r.raising
            /\ r.status = "EndOfStream" =>
                /\ r.pos = Len(audioSource)
                /\ \A j, k \in Loud(unit.from, r.pos) :
                       (audioSource[j] > 0) = (audioSource[k] > 0)

\* C12 witness: a call that read a frame at exactly the threshold, of the
\* sign opposite to the tracked one, and went on to return at a later frame.
C12_Witness ==
    /\ unit.step = "scanResult"
    /\ unit.result.status = "ok"
    /\ \E k \in (unit.from + 2)..(unit.result.pos - 1) :
           /\ audioSource[k] \in {AUDIO_MIN_VOLUME, -AUDIO_MIN_VOLUME}
           /\ (audioSource[k] > 0) = unit.result.raising
           /\ Loud(unit.from, k - 1) /= {}

\* Every frame of the input is louder than the threshold.
AllLoud == Loud(0, Len(audioSource)) = 1..Len(audioSource)

\* C15: on a signal of frames all above the threshold, a call after the
\* first, which starts right after the frame of the previous crossing
\* (unit.from), returns at the first later frame whose sign differs from the
\* sign of the frame before it, the frame right after unit.from included, and
\* returns as cycles the frames from the previous crossing to the new one: N
\* for runs of N frames.
C15_CyclesSinceCrossing ==
    (unit.step = "scanResult" /\ unit.calls >= 2 /\ AllLoud) =>
        LET r == unit.result
        IN  /\ \A k \in (unit.from + 1)..(r.pos - 1) :
                   (audioSource[k] > 0) = (audioSource[unit.from] > 0)
            /\ r.status = "ok" => r.cycles = r.pos - unit.from

\* ------------------------------------------------------------------------
\* Properties of waitForStart (SpecHunt)
\* ------------------------------------------------------------------------
\* The 8 bits decoded last, when n bits are decoded, the oldest first.
LastEight(n) == SubSeq(decodedBits, n - 7, n)

\* The bits of 0x7E as a register shifted left holds them, the oldest first.
DelimiterPattern == <<0, 1, 1, 1, 1, 1, 1, 0>>

\* C17: in waitForStart, once 8 bits are decoded the register holds the 8
\* bits decoded last, the newest in the low position; waitForStart has
\* returned exactly when at least 8 bits are decoded and the 8 decoded last
\* are those of 0x7E, for the first time; the in-stream loop then starts at
\* position 0 on the bit that follows.
C17_Hunting ==
    (unit.step = "hunt" /\ outcome = "running") =>
        LET n == Len(decodedBits)
        IN  /\ n >= 8 =>
                   lastByte = ByteOf([x \in 1..8 |-> LastEight(n)[9 - x]])
            /\ decPc = "decodeActualData" <=>
                   (n >= 8 /\ LastEight(n) = DelimiterPattern)
            /\ \A m \in 8..(n - 1) : LastEight(m) /= DelimiterPattern
            /\ decPc = "decodeActualData" => (position = 0 /\ srcPos = n)

\* ------------------------------------------------------------------------
\* Properties of the decoder run to its end (SpecLive)
\* ------------------------------------------------------------------------
\* The decoder is in one of its loops.
Running == decPc \in {"syncWithClock", "waitForStart", "decodeActualData"}

\* C20: on every finite wav file the decoder ends, by the end of the input
\* or by an error; every iteration of syncWithClock, waitForStart and
\* decodeActualData, with the decodeBit and goToNextZeroCrossing loops it
\* runs, reads at least one frame or ends the run.
C20_Terminates ==
    /\ <>Exited
    /\ [][Running => (srcPos' > srcPos \/ decPc' = "exited")]_vars

\* C20 witness: the decoder ended on a wav file of arbitrary frames, all of
\* them read.
C20_Witness ==
    /\ Exited
    /\ scenario = "raw"
    /\ Len(audioSource) = MaxScanLen
    /\ srcPos = Len(audioSource)

====
